---- MODULE Spec2Model ----
(***************************************************************************)
(* Model of the declarative-memory search plugin (src/main.py).            *)
(*                                                                         *)
(* One search request is followed from _perform_memory_search's entry to   *)
(* its return or raise: settings resolution and validation, the search     *)
(* method prober (_try_search_method), the embedding fallback, the         *)
(* per-item normalisation / metadata filtering loop, and the response      *)
(* assembly.  The host's collaborators (collection, embedder) are the      *)
(* environment: each call picks its outcome nondeterministically.          *)
(*                                                                         *)
(* Python values are records tagged by type; strings are sequences of      *)
(* one-character strings.                                                  *)
(***************************************************************************)
EXTENDS Integers, Sequences, FiniteSets, TLC

\* ------------------------------------------------------------------ bounds
MaxK == 2            \* the max_k setting; k and default_k are taken around it
MaxResults == 2      \* longest raw result list a collaborator returns
MaxDim == 2          \* longest embedding vector the embedder returns
MaxLen == 4          \* longest content string explored by SpecPreview
MaxPreview == 3      \* largest small preview_length explored by SpecPreview
MaxFilterEntries == 2  \* most entries in a metadata filter explored by SpecFilter

\* ------------------------------------------------------ program constants
DefaultPreviewLength == 200   \* preview_length default

\* ------------------------------------------------------------ Python values
NoneV == [t |-> "none"]
Absent == [t |-> "absent"]                 \* attribute not present (getattr default)
StrV(s) == [t |-> "str", s |-> s]
IntV(n) == [t |-> "int", n |-> n]
FloatV(n) == [t |-> "float", n |-> n]
DictV(d) == [t |-> "dict", d |-> d]        \* d: function key -> value
EmptyDict == DictV([key \in {} |-> NoneV])
Raised == [t |-> "raise"]                  \* an expression that raised
ItemsV(items) == [t |-> "items", items |-> items]  \* dict kept in insertion order

DigitChar == <<"0", "1", "2", "3", "4", "5", "6", "7", "8", "9">>

\* str(n) for a natural number
RECURSIVE Digits(_)
Digits(n) == IF n < 10 THEN <<DigitChar[n + 1]>>
             ELSE Digits(n \div 10) \o <<DigitChar[(n % 10) + 1]>>

\* str(v)
Str(v) == CASE v.t = "str" -> v.s
            [] v.t = "int" -> Digits(v.n)
            [] OTHER -> <<"N", "o", "n", "e">>

\* bool(v)
Truthy(v) == CASE v.t = "none" -> FALSE
               [] v.t = "absent" -> FALSE
               [] v.t = "str" -> v.s # <<>>
               [] v.t = "int" -> v.n # 0
               [] v.t = "float" -> v.n # 0
               [] v.t = "dict" -> DOMAIN v.d # {}
               [] v.t = "items" -> v.items # <<>>
               [] OTHER -> TRUE

\* s.startswith(p), s.endswith(p)
StartsWith(s, p) == Len(s) >= Len(p) /\ SubSeq(s, 1, Len(p)) = p
EndsWith(s, p) == Len(s) >= Len(p) /\ SubSeq(s, Len(s) - Len(p) + 1, Len(s)) = p

\* s[:n] for n >= 0
Slice(s, n) == SubSeq(s, 1, IF n < Len(s) THEN n ELSE Len(s))

\* ------------------------------------------------------- raw search results
\* A document object as the collection returns it: the attributes the plugin
\* reads (page_content, content, metadata) and its string form.
Doc(page_content, content, metadata, repr) ==
    [page_content |-> page_content, content |-> content,
     metadata |-> metadata, repr |-> repr]

\* The three raw result shapes: (document, score) tuple, object with
\* .document/.score, bare document.
Pair(doc, score) == [shape |-> "pair", doc |-> doc, score |-> score]
Obj(doc, score) == [shape |-> "object", doc |-> doc, score |-> score]
Bare(doc) == [shape |-> "bare", doc |-> doc, score |-> Absent]

\* What a collaborator search call returns: None or a list of raw results.
NoneResult == [none |-> TRUE, items |-> <<>>]
ListResult(items) == [none |-> FALSE, items |-> items]

\* getattr(obj, name, default) for an attribute value a
GetAttr(a, default) == IF a = Absent THEN default ELSE a

\* a or b
Or(a, b) == IF Truthy(a) THEN a ELSE b

\* Shape detection of one raw result.
Unpack(doc_with_score) ==
    IF doc_with_score.shape = "pair"
    THEN [doc |-> doc_with_score.doc, score |-> doc_with_score.score]
    ELSE IF doc_with_score.shape = "object"
    THEN [doc |-> doc_with_score.doc, score |-> doc_with_score.score]
    ELSE [doc |-> doc_with_score.doc, score |-> NoneV]

\* EntryCheck with the pattern's leading "*" left in the suffix compared.
EntryCheck_KeepsStar(doc_metadata, filter_key, filter_value) ==
    IF doc_metadata.t # "dict" THEN "TypeError"
    ELSE IF filter_key \notin DOMAIN doc_metadata.d THEN "fail"
    ELSE IF filter_value.t = "str" /\ StartsWith(filter_value.s, <<"*">>)
    THEN IF ~EndsWith(Str(doc_metadata.d[filter_key]), filter_value.s)
         THEN "fail" ELSE "pass"
    ELSE IF doc_metadata.d[filter_key] # filter_value THEN "fail" ELSE "pass"

\* One entry of the filter against the document's metadata: "pass", "fail"
\* (filter_passed = False; break) or "TypeError" (`filter_key not in
\* doc_metadata` on a metadata that is no mapping).
EntryCheck(doc_metadata, filter_key, filter_value) ==
    IF doc_metadata.t # "dict" THEN "TypeError"
    ELSE IF filter_key \notin DOMAIN doc_metadata.d THEN "fail"
    ELSE IF filter_value.t = "str" /\ StartsWith(filter_value.s, <<"*">>)
    THEN IF ~EndsWith(Str(doc_metadata.d[filter_key]), Tail(filter_value.s))
         THEN "fail" ELSE "pass"
    ELSE IF doc_metadata.d[filter_key] # filter_value THEN "fail" ELSE "pass"

\* The loop over request.metadata_filter.items(), from entry j on; it stops at
\* the first entry that does not pass.
RECURSIVE FilterLoop(_, _, _)
FilterLoop(doc_metadata, items, j) ==
    IF j > Len(items) THEN "pass"
    ELSE LET verdict == EntryCheck(doc_metadata, items[j][1], items[j][2])
         IN IF verdict = "pass" THEN FilterLoop(doc_metadata, items, j + 1)
            ELSE verdict

\* filter_passed for one document under the request's filter.
FilterPassed(doc, metadata_filter) ==
    FilterLoop(GetAttr(doc.metadata, EmptyDict), metadata_filter.items, 1)

\* content = page_content or content or str(doc)
Content(doc) ==
    Or(Or(GetAttr(doc.page_content, NoneV), GetAttr(doc.content, NoneV)),
       StrV(doc.repr))

\* ContentPreview truncating from preview_length characters on (>= for >).
ContentPreview_AtLength(content, st) ==
    IF st.enable_content_preview
    THEN IF Len(content.s) >= st.preview_length
         THEN StrV(Slice(content.s, st.preview_length) \o <<".", ".", ".">>)
         ELSE content
    ELSE NoneV

\* content_preview
ContentPreview(content, st) ==
    IF st.enable_content_preview
    THEN IF Len(content.s) > st.preview_length
         THEN StrV(Slice(content.s, st.preview_length) \o <<".", ".", ".">>)
         ELSE content
    ELSE NoneV

\* float(score) if (include_scores and score is not None) else None;
\* Raised (a ValueError) when the score does not convert.
Score(score, rq) ==
    IF rq.include_scores /\ score # NoneV
    THEN IF score.t \in {"int", "float"} THEN FloatV(score.n) ELSE Raised
    ELSE NoneV

\* metadata.get("id") if metadata else None
DocumentId(metadata) ==
    IF Truthy(metadata)
    THEN IF "id" \in DOMAIN metadata.d THEN metadata.d["id"] ELSE NoneV
    ELSE NoneV

\* One iteration of the result loop: "ok" with the MemoryResult built,
\* "filtered" (continue), or "error" (the except branch: logged, continue).
ProcessOne(doc_with_score, rq, st, post_filter) ==
    LET u == Unpack(doc_with_score)
        doc == u.doc
        verdict == IF post_filter THEN FilterPassed(doc, rq.metadata_filter) ELSE "pass"
        content == Content(doc)
        metadata == IF rq.include_metadata THEN GetAttr(doc.metadata, EmptyDict) ELSE NoneV
        score == Score(u.score, rq)
    IN IF verdict = "TypeError" THEN [kind |-> "error"]
       ELSE IF verdict = "fail" THEN [kind |-> "filtered"]
       ELSE IF score = Raised THEN [kind |-> "error"]
       ELSE [kind |-> "ok",
             result |-> [content |-> content,
                         content_preview |-> ContentPreview(content, st),
                         score |-> score,
                         metadata |-> metadata,
                         document_id |-> DocumentId(metadata)]]

\* ------------------------------------------------------------------- state
VARIABLES
    settings,              \* what load_settings() returned for this request
    request,               \* the MemorySearchRequest
    collection,            \* search capabilities the collection exposes (hasattr)
    documents,             \* raw results the declarative collection can return
    vectors,               \* attributes present on each memory area of the host
    info,                  \* what the stats / collections endpoint produced
    pc,                    \* position in _perform_memory_search / _try_search_method
    k,                     \* effective k (0 before it is computed)
    search_method_used,    \* the strategy tag
    memory_results,        \* raw results of the chosen strategy
    query_embedding,       \* length of the query embedding (0: not computed)
    needs_post_filtering,  \* the local computed at the head of the result loop
    results,               \* MemoryResults built so far
    idx,                   \* number of raw results the loop has consumed
    embedding_dimensions,  \* 0 stands for None
    calls,                 \* collaborator calls made so far, in order
    outcome                \* how the request ended: response, ValueError, Exception

\* What a search request only reads.
host == <<settings, request, collection, documents, vectors, info>>

vars == <<settings, request, collection, documents, vectors, info, pc, k, search_method_used, memory_results,
          query_embedding, needs_post_filtering, results, idx, embedding_dimensions,
          calls, outcome>>

\* Exception types a collaborator call may raise.
ExcTypes == {"TypeError", "ValueError"}

HighLevelMethods == {"search", "query", "similarity_search"}

\* The MemorySearchResponse fields the model follows.
Response(rs, total, tag, dims) ==
    [results |-> rs, total_results |-> total, search_method |-> tag,
     embedding_dimensions |-> dims]
NoResponse == Response(<<>>, 0, "", 0)

Pending == [kind |-> "pending", msg |-> "", response |-> NoResponse]
Returned(resp) == [kind |-> "response", msg |-> "", response |-> resp]
RaiseValueError(msg) == [kind |-> "ValueError", msg |-> msg, response |-> NoResponse]
RaiseException(msg) == [kind |-> "Exception", msg |-> msg, response |-> NoResponse]

\* The two except clauses around the whole search: a ValueError is re-raised as it
\* is, anything else becomes the generic "Error during search" exception.
Handler(exc, msg) ==
    IF exc = "ValueError" THEN RaiseValueError(msg)
    ELSE RaiseException("Error during search")

Call(m, with_filter, out) == [m |-> m, with_filter |-> with_filter, out |-> out]

\* The three memory areas and the attributes the endpoints read off them.
Areas == {"declarative", "episodic", "procedural"}
AreaFields == {"collection_name", "embedder_name", "embedder_size"}
AllAreas == [a \in Areas |-> AreaFields \cup {"get_all_points"}]
NoInfo == [endpoint |-> "", kind |-> "pending", msg |-> "", body |-> <<>>]

\* State at the entry of _perform_memory_search.
Start(st, rq, col, docs) ==
    /\ settings = st
    /\ request = rq
    /\ collection = col
    /\ documents = docs
    /\ vectors = AllAreas
    /\ info = NoInfo
    /\ pc = "start"
    /\ k = 0
    /\ search_method_used = "unknown"
    /\ memory_results = NoneResult
    /\ query_embedding = 0
    /\ needs_post_filtering = FALSE
    /\ results = <<>>
    /\ idx = 0
    /\ embedding_dimensions = 0
    /\ calls = <<>>
    /\ outcome = Pending

\* Effective k: the request's k, else the default_k setting (k = 0 models None).
EffectiveK(rq, st) == IF rq.k # 0 THEN rq.k ELSE st.default_k

\* Validate checking only an explicit k against max_k.
Validate_ExplicitOnly ==
    /\ pc = "start"
    /\ k' = EffectiveK(request, settings)
    /\ IF request.k > settings.max_k
       THEN /\ outcome' = Handler("ValueError", "exceeds maximum allowed")
            /\ pc' = "done"
       ELSE /\ outcome' = outcome
            /\ pc' = IF settings.use_search_method THEN "try_search" ELSE "embed"
    /\ UNCHANGED <<host, search_method_used, memory_results,
                   query_embedding, needs_post_filtering, results, idx,
                   embedding_dimensions, calls>>

\* Validate rejecting k = max_k as well (>= for >).
Validate_RejectsMax ==
    /\ pc = "start"
    /\ k' = EffectiveK(request, settings)
    /\ IF k' >= settings.max_k
       THEN /\ outcome' = Handler("ValueError", "exceeds maximum allowed")
            /\ pc' = "done"
       ELSE /\ outcome' = outcome
            /\ pc' = IF settings.use_search_method THEN "try_search" ELSE "embed"
    /\ UNCHANGED <<host, search_method_used, memory_results,
                   query_embedding, needs_post_filtering, results, idx,
                   embedding_dimensions, calls>>

\* Settings resolution and validation; on success the dispatch to the prober or
\* straight to the embedding fallback.
Validate ==
    /\ pc = "start"
    /\ k' = EffectiveK(request, settings)
    /\ IF k' > settings.max_k
       THEN /\ outcome' = Handler("ValueError", "exceeds maximum allowed")
            /\ pc' = "done"
       ELSE /\ outcome' = outcome
            /\ pc' = IF settings.use_search_method THEN "try_search" ELSE "embed"
    /\ UNCHANGED <<host, search_method_used, memory_results,
                   query_embedding, needs_post_filtering, results, idx,
                   embedding_dimensions, calls>>

\* ------------------------------------------------- the collaborators' side
\* Raw results of the request-level model: one that passes the example filter,
\* one that fails it, one whose score does not convert and whose metadata is None.
DocPass == Doc(StrV(<<"a", "b", "c">>), Absent, DictV([source |-> StrV(<<"a", "p">>)]), <<"D">>)
DocFail == Doc(Absent, StrV(<<"d", "e">>), DictV([source |-> StrV(<<"b", "d">>)]), <<"D">>)
DocBad == Doc(Absent, Absent, NoneV, <<"D">>)
Items == {Pair(DocPass, IntV(1)), Bare(DocFail), Obj(DocBad, StrV(<<"x">>))}

RECURSIVE SeqsUpTo(_, _)
SeqsUpTo(S, n) ==
    IF n = 0 THEN {<<>>}
    ELSE LET shorter == SeqsUpTo(S, n - 1)
         IN shorter \cup {Append(q, x) : q \in {r \in shorter : Len(r) = n - 1}, x \in S}

\* What a search call may return.
Returns == {NoneResult} \cup {ListResult(l) : l \in SeqsUpTo(documents, MaxResults)}

\* The outcome of one collaborator call: a return value or a raised exception.
Outcomes ==
    {[kind |-> "return", exc |-> "", value |-> v] : v \in Returns}
    \cup {[kind |-> "raise", exc |-> e, value |-> NoneResult] : e \in ExcTypes}

\* How the call log records an outcome.
OutTag(o) == IF o.kind = "raise" THEN o.exc
             ELSE IF o.value.none THEN "None" ELSE "list"

\* ------------------------------------------------------ _try_search_method
\* The prober returns (res, tag); the caller assigns both and tests
\* `memory_results is None` to choose between the fallback and the result loop.
ProberReturn(res, tag) ==
    /\ memory_results' = res
    /\ search_method_used' = tag
    /\ pc' = IF res.none THEN "embed" ELSE "prepare"

\* The prober moves on to the next method without returning.
ProberNext(next) ==
    /\ pc' = next
    /\ UNCHANGED <<memory_results, search_method_used>>

ProberFrame == <<host, k, query_embedding,
                 needs_post_filtering, results, idx, embedding_dimensions, outcome>>

\* TrySearchWithFilter retrying without the filter after any exception.
TrySearchWithFilter_RetryAny ==
    /\ pc = "try_search"
    /\ IF "search" \notin collection
       THEN ProberNext("try_query") /\ calls' = calls
       ELSE IF ~Truthy(request.metadata_filter)
       THEN ProberNext("search_basic") /\ calls' = calls
       ELSE \E o \in Outcomes :
              /\ calls' = Append(calls, Call("search", TRUE, OutTag(o)))
              /\ IF o.kind = "return" THEN ProberReturn(o.value, "search_with_filter")
                 ELSE ProberNext("search_basic")
    /\ UNCHANGED ProberFrame

\* Method 1, first half: search() with the filter passed natively.
TrySearchWithFilter ==
    /\ pc = "try_search"
    /\ IF "search" \notin collection
       THEN ProberNext("try_query") /\ calls' = calls
       ELSE IF ~Truthy(request.metadata_filter)
       THEN ProberNext("search_basic") /\ calls' = calls
       ELSE \E o \in Outcomes :
              /\ calls' = Append(calls, Call("search", TRUE, OutTag(o)))
              /\ IF o.kind = "return" THEN ProberReturn(o.value, "search_with_filter")
                 ELSE IF o.exc = "TypeError" THEN ProberNext("search_basic")
                 ELSE ProberNext("try_query")
    /\ UNCHANGED ProberFrame

\* Method 1, second half: search() without the filter.
TrySearchBasic ==
    /\ pc = "search_basic"
    /\ \E o \in Outcomes :
         /\ calls' = Append(calls, Call("search", FALSE, OutTag(o)))
         /\ IF o.kind = "return" THEN ProberReturn(o.value, "search")
            ELSE ProberNext("try_query")
    /\ UNCHANGED ProberFrame

\* Method 2: query().
TryQuery ==
    /\ pc = "try_query"
    /\ IF "query" \notin collection
       THEN ProberNext("try_similarity") /\ calls' = calls
       ELSE \E o \in Outcomes :
              /\ calls' = Append(calls, Call("query", FALSE, OutTag(o)))
              /\ IF o.kind = "return" THEN ProberReturn(o.value, "query")
                 ELSE ProberNext("try_similarity")
    /\ UNCHANGED ProberFrame

\* Method 3: similarity_search(); then the prober gives up.
TrySimilaritySearch ==
    /\ pc = "try_similarity"
    /\ IF "similarity_search" \notin collection
       THEN ProberReturn(NoneResult, "no_high_level_method") /\ calls' = calls
       ELSE \E o \in Outcomes :
              /\ calls' = Append(calls, Call("similarity_search", FALSE, OutTag(o)))
              /\ IF o.kind = "return" THEN ProberReturn(o.value, "similarity_search")
                 ELSE ProberReturn(NoneResult, "no_high_level_method")
    /\ UNCHANGED ProberFrame

\* --------------------------------------------------- _perform_memory_search
\* Fallback, step 1: stray.embedder.embed_query(request.query).
EmbedQuery ==
    /\ pc = "embed"
    /\ \/ \E dim \in 1..MaxDim :
            /\ calls' = Append(calls, Call("embed_query", FALSE, "list"))
            /\ query_embedding' = dim
            /\ pc' = "recall"
            /\ outcome' = outcome
       \/ \E e \in ExcTypes :
            /\ calls' = Append(calls, Call("embed_query", FALSE, e))
            /\ query_embedding' = query_embedding
            /\ pc' = "done"
            /\ outcome' = Handler(e, "embed_query")
    /\ UNCHANGED <<host, k, search_method_used, memory_results,
                   needs_post_filtering, results, idx, embedding_dimensions>>

\* RecallFromEmbedding leaving search_method_used as it was.
RecallFromEmbedding_NoTag ==
    /\ pc = "recall"
    /\ \E o \in Outcomes :
         /\ calls' = Append(calls, Call("recall_memories_from_embedding", FALSE, OutTag(o)))
         /\ IF o.kind = "return"
            THEN /\ memory_results' = o.value
                 /\ search_method_used' = search_method_used
                 /\ pc' = "prepare"
                 /\ outcome' = outcome
            ELSE /\ UNCHANGED <<memory_results, search_method_used>>
                 /\ pc' = "done"
                 /\ outcome' = Handler(o.exc, "recall_memories_from_embedding")
    /\ UNCHANGED <<host, k, query_embedding,
                   needs_post_filtering, results, idx, embedding_dimensions>>

\* Fallback, step 2: recall_memories_from_embedding(embedding, k, threshold).
RecallFromEmbedding ==
    /\ pc = "recall"
    /\ \E o \in Outcomes :
         /\ calls' = Append(calls, Call("recall_memories_from_embedding", FALSE, OutTag(o)))
         /\ IF o.kind = "return"
            THEN /\ memory_results' = o.value
                 /\ search_method_used' = "recall_memories_from_embedding"
                 /\ pc' = "prepare"
                 /\ outcome' = outcome
            ELSE /\ UNCHANGED <<memory_results, search_method_used>>
                 /\ pc' = "done"
                 /\ outcome' = Handler(o.exc, "recall_memories_from_embedding")
    /\ UNCHANGED <<host, k, query_embedding,
                   needs_post_filtering, results, idx, embedding_dimensions>>

\* NeedsPostFiltering without the search_with_filter exemption.
NeedsPostFiltering_AnyTag(rq, st, tag) ==
    /\ Truthy(rq.metadata_filter)
    /\ st.enable_metadata_filter

\* needs_post_filtering
NeedsPostFiltering(rq, st, tag) ==
    /\ Truthy(rq.metadata_filter)
    /\ st.enable_metadata_filter
    /\ tag # "search_with_filter"

\* Head of step 3: results = [], needs_post_filtering.
PrepareResults ==
    /\ pc = "prepare"
    /\ results' = <<>>
    /\ idx' = 0
    /\ needs_post_filtering' = NeedsPostFiltering(request, settings, search_method_used)
    /\ pc' = "loop"
    /\ UNCHANGED <<host, k, search_method_used, memory_results,
                   query_embedding, embedding_dimensions, calls, outcome>>

\* ProcessItem leaving the loop at the first item that raises.
ProcessItem_BreakOnError ==
    /\ pc = "loop"
    /\ idx < Len(memory_results.items)
    /\ LET r == ProcessOne(memory_results.items[idx + 1], request, settings,
                           needs_post_filtering)
       IN /\ results' = IF r.kind = "ok" THEN Append(results, r.result) ELSE results
          /\ idx' = IF r.kind = "error" THEN Len(memory_results.items) ELSE idx + 1
    /\ UNCHANGED <<host, pc, k, search_method_used,
                   memory_results, query_embedding, needs_post_filtering,
                   embedding_dimensions, calls, outcome>>

\* One iteration of `for doc_with_score in memory_results`.
ProcessItem ==
    /\ pc = "loop"
    /\ idx < Len(memory_results.items)
    /\ idx' = idx + 1
    /\ LET r == ProcessOne(memory_results.items[idx + 1], request, settings,
                           needs_post_filtering)
       IN results' = IF r.kind = "ok" THEN Append(results, r.result) ELSE results
    /\ UNCHANGED <<host, pc, k, search_method_used,
                   memory_results, query_embedding, needs_post_filtering,
                   embedding_dimensions, calls, outcome>>

\* GetEmbeddingDimensions taking the sample embedding whatever the tag.
GetEmbeddingDimensions_AlwaysSample ==
    /\ pc = "loop"
    /\ idx = Len(memory_results.items)
    /\ pc' = "build"
    /\ \/ \E dim \in 1..MaxDim :
            /\ calls' = Append(calls, Call("embed_query", FALSE, "list"))
            /\ embedding_dimensions' = dim
       \/ \E e \in ExcTypes :
            /\ calls' = Append(calls, Call("embed_query", FALSE, e))
            /\ embedding_dimensions' = 0
    /\ UNCHANGED <<host, k, search_method_used, memory_results,
                   query_embedding, needs_post_filtering, results, idx, outcome>>

\* After the loop: embedding_dimensions, from the query embedding or from a
\* sample embed_query("test") whose failure is swallowed.
GetEmbeddingDimensions ==
    /\ pc = "loop"
    /\ idx = Len(memory_results.items)
    /\ pc' = "build"
    /\ IF search_method_used = "recall_memories_from_embedding"
       THEN /\ embedding_dimensions' = query_embedding
            /\ calls' = calls
       ELSE \/ \E dim \in 1..MaxDim :
                 /\ calls' = Append(calls, Call("embed_query", FALSE, "list"))
                 /\ embedding_dimensions' = dim
            \/ \E e \in ExcTypes :
                 /\ calls' = Append(calls, Call("embed_query", FALSE, e))
                 /\ embedding_dimensions' = 0
    /\ UNCHANGED <<host, k, search_method_used, memory_results,
                   query_embedding, needs_post_filtering, results, idx, outcome>>

\* MemorySearchResponse(...); reading embedder_name / embedder_size off the
\* collection may raise AttributeError.
BuildResponse ==
    /\ pc = "build"
    /\ pc' = "done"
    /\ \/ /\ outcome' = Returned(Response(results, Len(results), search_method_used,
                                          embedding_dimensions))
          /\ calls' = calls
       \/ /\ outcome' = Handler("AttributeError", "embedder_name")
          /\ calls' = Append(calls, Call("embedder_info", FALSE, "AttributeError"))
    /\ UNCHANGED <<host, k, search_method_used, memory_results,
                   query_embedding, needs_post_filtering, results, idx,
                   embedding_dimensions>>

\* ------------------------------------------------------------ specification
\* Settings as load_settings() may return them.
SettingsSet ==
    [default_k : {1, MaxK + 1}, max_k : {MaxK},
     enable_metadata_filter : BOOLEAN, enable_content_preview : {TRUE},
     preview_length : {2}, use_search_method : BOOLEAN]

\* The example filter {"source": "*p"}, the empty filter, and no filter.
ExampleFilter == ItemsV(<< <<"source", StrV(<<"*", "p">>)>> >>)
Filters == {NoneV, ItemsV(<<>>), ExampleFilter}

\* Requests: k = 0 is "k not given"; explicit k may exceed every max_k.
RequestSet ==
    [k : {0, MaxK, MaxK + 1}, metadata_filter : Filters,
     include_scores : BOOLEAN, include_metadata : {TRUE}]

Init == \E st \in SettingsSet, rq \in RequestSet, col \in SUBSET HighLevelMethods :
            Start(st, rq, col, Items)

Next ==
    \/ Validate
    \/ TrySearchWithFilter
    \/ TrySearchBasic
    \/ TryQuery
    \/ TrySimilaritySearch
    \/ EmbedQuery
    \/ RecallFromEmbedding
    \/ PrepareResults
    \/ ProcessItem
    \/ GetEmbeddingDimensions
    \/ BuildResponse

Spec == Init /\ [][Next]_vars

\* --------------------------------------- the fallback path on its own
\* With the prober disabled, the request runs validation, embed_query,
\* recall_memories_from_embedding, the result loop and the response assembly.
NextFallback ==
    \/ Validate
    \/ EmbedQuery
    \/ RecallFromEmbedding
    \/ PrepareResults
    \/ ProcessItem
    \/ GetEmbeddingDimensions
    \/ BuildResponse

FallbackSettings(emf, ecp, pl) ==
    [default_k |-> 1, max_k |-> MaxK, enable_metadata_filter |-> emf,
     enable_content_preview |-> ecp, preview_length |-> pl,
     use_search_method |-> FALSE]

PlainRequest(f) ==
    [k |-> 0, metadata_filter |-> f, include_scores |-> TRUE, include_metadata |-> TRUE]

\* Metadata filtering: one stored document with varied metadata, under varied
\* filters (the documented examples among them).
DocPdf == <<"d", "o", "c", ".", "p", "d", "f">>
StarPdf == <<"*", ".", "p", "d", "f">>
ReportDocx == <<"r", "e", "p", "o", "r", "t", ".", "d", "o", "c", "x">>

MetaKeys == {"source", "page"}
FilterKeys == {"source", "page", "missing_key"}
MetaValues == {StrV(DocPdf), StrV(ReportDocx), IntV(12), StrV(<<"1", "2">>)}
FilterValues == {StrV(StarPdf), StrV(ReportDocx), StrV(<<"*">>),
                 StrV(<<"*", "2">>), IntV(12)}

\* Every metadata attribute explored: a mapping over some of MetaKeys, None, or
\* no metadata attribute at all.
Metadatas ==
    {DictV(d) : d \in UNION {[K -> MetaValues] : K \in SUBSET MetaKeys}}
    \cup {NoneV, Absent}

\* Non-empty filters with distinct keys, in insertion order.
RichFilters ==
    {ItemsV(f) : f \in {g \in SeqsUpTo(FilterKeys \X FilterValues, MaxFilterEntries) :
                          /\ g # <<>>
                          /\ \A i, j \in 1..Len(g) : i # j => g[i][1] # g[j][1]}}

InitFilter ==
    \E f \in RichFilters, md \in Metadatas :
        Start(FallbackSettings(TRUE, TRUE, 2), PlainRequest(f), {},
              {Bare(Doc(StrV(<<"a", "b", "c">>), Absent, md, <<"D">>))})

SpecFilter == InitFilter /\ [][NextFallback]_vars

\* Content preview: one stored document with varied content, under varied
\* preview settings (lengths 150 and 250 against the default 200 among them).
Repeat(c, n) == [i \in 1..n |-> c]

Contents ==
    SeqsUpTo({"a", "b"}, MaxLen)
    \cup {Repeat("a", n) : n \in {150, DefaultPreviewLength, 250}}

InitPreview ==
    \E ecp \in BOOLEAN, pl \in (1..MaxPreview) \cup {DefaultPreviewLength},
       c \in Contents :
        Start(FallbackSettings(TRUE, ecp, pl), PlainRequest(NoneV), {},
              {Bare(Doc(StrV(c), Absent, Absent, <<"D">>))})

SpecPreview == InitPreview /\ [][NextFallback]_vars

\* ------------------------------------------- stats and collections endpoints
\* stray.memory.vectors.<area>.<field>: reading a field the area lacks raises.
HasField(area, field) == field \in vectors[area]

Served(endpoint, body) == [endpoint |-> endpoint, kind |-> "response", msg |-> "", body |-> body]
Failed(endpoint, msg) == [endpoint |-> endpoint, kind |-> "Exception", msg |-> msg, body |-> <<>>]

\* The inner try of get_memory_stats: total_documents and collection_name.
CountDocuments(points_raise) ==
    IF HasField("declarative", "get_all_points") /\ points_raise
    THEN [total_documents |-> "error_counting", collection_name |-> "unset"]
    ELSE IF ~HasField("declarative", "collection_name")
    THEN [total_documents |-> "error_counting", collection_name |-> "unset"]
    ELSE [total_documents |-> IF HasField("declarative", "get_all_points")
                              THEN "count" ELSE "method_not_available",
          collection_name |-> "name"]

\* GET /declarative-memory/stats
GetMemoryStats ==
    /\ pc = "idle"
    /\ pc' = "served"
    /\ IF ~HasField("declarative", "embedder_name") \/ ~HasField("declarative", "embedder_size")
       THEN info' = Failed("stats", "Error retrieving statistics")
       ELSE \E points_raise \in BOOLEAN :
              info' = Served("stats", CountDocuments(points_raise))
    /\ UNCHANGED <<settings, request, collection, documents, vectors, k,
                   search_method_used, memory_results, query_embedding,
                   needs_post_filtering, results, idx, embedding_dimensions, calls,
                   outcome>>

\* One area's entry of collections_info: its descriptor, or {"error": ...} when
\* reading any of its three fields raises.
AreaInfo(area) ==
    IF \A field \in AreaFields : HasField(area, field) THEN "descriptor" ELSE "error"

\* GET /declarative-memory/collections
GetMemoryCollections ==
    /\ pc = "idle"
    /\ pc' = "served"
    /\ info' = Served("collections", [area \in Areas |-> AreaInfo(area)])
    /\ UNCHANGED <<settings, request, collection, documents, vectors, k,
                   search_method_used, memory_results, query_embedding,
                   needs_post_filtering, results, idx, embedding_dimensions, calls,
                   outcome>>

NextInfo == GetMemoryStats \/ GetMemoryCollections

\* Any memory area may lack any of its fields.
InitInfo ==
    /\ vectors \in [Areas -> SUBSET AreaFields]
                   \cup {[AllAreas EXCEPT !["declarative"] = fs \cup {"get_all_points"}] :
                            fs \in SUBSET AreaFields}
    /\ pc = "idle"
    /\ info = NoInfo
    /\ settings = FallbackSettings(TRUE, TRUE, 2)
    /\ request = PlainRequest(NoneV)
    /\ collection = {}
    /\ documents = {}
    /\ k = 0
    /\ search_method_used = "unknown"
    /\ memory_results = NoneResult
    /\ query_embedding = 0
    /\ needs_post_filtering = FALSE
    /\ results = <<>>
    /\ idx = 0
    /\ embedding_dimensions = 0
    /\ calls = <<>>
    /\ outcome = Pending

SpecInfo == InitInfo /\ [][NextInfo]_vars

\* ---------------------------------------------------- reading the call log
Succeeded(c) == c.out \in {"list", "None"}

\* The prober's calls, in order.
ProberCalls == SelectSeq(calls, LAMBDA c : c.m \in HighLevelMethods)

\* Priority of a prober strategy: filtered search, plain search, query,
\* similarity_search.
Rank(c) == IF c.m = "search" THEN (IF c.with_filter THEN 1 ELSE 2)
           ELSE IF c.m = "query" THEN 3 ELSE 4

TagOf(r) == <<"search_with_filter", "search", "query", "similarity_search">>[r]

Invoked(r) == \E i \in 1..Len(ProberCalls) : Rank(ProberCalls[i]) = r

\* The strategy exists on the collection (and, for the filtered search, the
\* request carries a non-empty filter).
Available(r) ==
    CASE r = 1 -> "search" \in collection /\ Truthy(request.metadata_filter)
      [] r = 2 -> "search" \in collection
      [] r = 3 -> "query" \in collection
      [] OTHER -> "similarity_search" \in collection

\* Rank of the strategy that returned, 5 when none did.
StopRank ==
    IF \E i \in 1..Len(ProberCalls) : Succeeded(ProberCalls[i])
    THEN Rank(ProberCalls[CHOOSE i \in 1..Len(ProberCalls) : Succeeded(ProberCalls[i])])
    ELSE 5

\* The prober has just returned to _perform_memory_search.
ProberDone ==
    /\ settings.use_search_method
    /\ pc \in {"embed", "prepare"}
    /\ \A i \in 1..Len(calls) : calls[i].m \in HighLevelMethods

HasResponse == pc = "done" /\ outcome.kind = "response"

\* ------------------------------------------------------------------ claims
\* C1: whenever the effective k (the request's k, or default_k when the request
\* gives none) exceeds max_k, no collaborator call is ever made and the request
\* ends with the validation ValueError.
C1_FailFast ==
    LET eff == IF request.k # 0 THEN request.k ELSE settings.default_k
    IN eff > settings.max_k =>
         /\ calls = <<>>
         /\ pc \in {"start", "done"}
         /\ pc = "done" => /\ outcome.kind = "ValueError"
                           /\ outcome.msg = "exceeds maximum allowed"

\* C1 witness: a request without k under default_k > max_k has ended.
C1_Witness ==
    /\ pc = "done"
    /\ request.k = 0
    /\ settings.default_k > settings.max_k
    /\ outcome.kind = "ValueError"

\* The parts of C2 that hold as claimed: calls in strictly increasing priority,
\* the filtered search only under a non-empty filter, nothing invoked after the
\* first strategy that returns, and the tag naming that strategy.
C2_OrderAndStop ==
    /\ \A i, j \in 1..Len(ProberCalls) :
          i < j => Rank(ProberCalls[i]) < Rank(ProberCalls[j])
    /\ \A r \in 1..4 : Invoked(r) => Available(r)
    /\ \A i \in 1..Len(ProberCalls) : Succeeded(ProberCalls[i]) => i = Len(ProberCalls)
    /\ search_method_used =
          IF StopRank = 5 THEN "no_high_level_method" ELSE TagOf(StopRank)

\* C2 as claimed: when the prober returns, every available strategy of higher
\* priority than the one that returned was attempted (an absent or raising
\* strategy always hands over to the next one in the order).
C2_Original ==
    ProberDone =>
        /\ C2_OrderAndStop
        /\ \A r \in 1..4 : (Available(r) /\ r < StopRank) => Invoked(r)

\* C2 amended: as C2_Original, except that the plain search is attempted exactly
\* when search exists and either the request has no filter or the filtered
\* search raised TypeError; a filtered search raising any other exception hands
\* over to query.
C2_Amended ==
    ProberDone =>
        /\ C2_OrderAndStop
        /\ \A r \in {1, 3, 4} : (Available(r) /\ r < StopRank) => Invoked(r)
        /\ (StopRank >= 2) =>
             (Invoked(2) <=>
                /\ "search" \in collection
                /\ \/ ~Truthy(request.metadata_filter)
                   \/ \E i \in 1..Len(ProberCalls) :
                         /\ Rank(ProberCalls[i]) = 1
                         /\ ProberCalls[i].out = "TypeError")

\* C2 witness: the filtered search raised something other than TypeError, the
\* plain search was not attempted although search exists, and query returned
\* and named the tag.
C2_Witness ==
    /\ ProberDone
    /\ Len(ProberCalls) = 2
    /\ Rank(ProberCalls[1]) = 1 /\ ProberCalls[1].out = "ValueError"
    /\ Rank(ProberCalls[2]) = 3 /\ ProberCalls[2].out = "list"
    /\ search_method_used = "query"

\* The raw results that come through the loop under a given filtering decision,
\* as MemoryResults in raw order.
RECURSIVE Survivors(_, _)
Survivors(items, post_filter) ==
    IF items = <<>> THEN <<>>
    ELSE LET r == ProcessOne(Head(items), request, settings, post_filter)
         IN (IF r.kind = "ok" THEN <<r.result>> ELSE <<>>)
            \o Survivors(Tail(items), post_filter)

Tags == {"search_with_filter", "search", "query", "similarity_search",
         "recall_memories_from_embedding"}

\* C3: a response's search_method is one of the five strategy tags; it is
\* recall_memories_from_embedding exactly when the prober is disabled or no
\* high-level call returned a result list; a collection with none of search,
\* query, similarity_search always gives that tag; with the prober disabled no
\* high-level method is invoked at all.
C3_TagOfResponse ==
    /\ HasResponse =>
         LET tag == outcome.response.search_method
             got_list == \E i \in 1..Len(ProberCalls) : ProberCalls[i].out = "list"
         IN /\ tag \in Tags
            /\ (tag = "recall_memories_from_embedding") <=>
                  (~settings.use_search_method \/ ~got_list)
            /\ collection = {} => tag = "recall_memories_from_embedding"
    /\ ~settings.use_search_method => ProberCalls = <<>>

\* C3 witness: the prober ran on a collection exposing no high-level method and
\* the response is tagged with the fallback.
C3_Witness ==
    /\ HasResponse
    /\ settings.use_search_method
    /\ collection = {}
    /\ outcome.response.search_method = "recall_memories_from_embedding"
    /\ outcome.response.results # <<>>

\* C4: post-filtering is applied iff the request has a non-empty filter, the
\* enable_metadata_filter setting is true and the tag is not search_with_filter;
\* when it is not applied every raw result that normalizes is in the response;
\* when it is applied, exactly those that also pass the filter are; and a
\* filtered search that returned a list gives the tag search_with_filter with
\* post-filtering skipped.
C4_PostFilterRule ==
    HasResponse =>
        LET applies == /\ request.metadata_filter \notin {NoneV, ItemsV(<<>>)}
                       /\ settings.enable_metadata_filter
                       /\ outcome.response.search_method # "search_with_filter"
        IN /\ needs_post_filtering = applies
           /\ outcome.response.results = Survivors(memory_results.items, applies)
           /\ (\E i \in 1..Len(calls) :
                  calls[i].m = "search" /\ calls[i].with_filter /\ calls[i].out = "list")
              => /\ outcome.response.search_method = "search_with_filter"
                 /\ ~needs_post_filtering
                 /\ outcome.response.results = Survivors(memory_results.items, FALSE)

\* C4 witness: the search took the filter natively, returned a document that the
\* filter would reject, and the response still carries it.
C4_Witness ==
    /\ HasResponse
    /\ settings.enable_metadata_filter
    /\ request.metadata_filter = ExampleFilter
    /\ outcome.response.search_method = "search_with_filter"
    /\ memory_results.items = <<Bare(DocFail)>>
    /\ Len(outcome.response.results) = 1

\* The claim's own reading of "the document's metadata passes the filter".
ClaimPasses(metadata, metadata_filter) ==
    /\ metadata.t = "dict"
    /\ \A i \in 1..Len(metadata_filter.items) :
         LET key == metadata_filter.items[i][1]
             value == metadata_filter.items[i][2]
         IN /\ key \in DOMAIN metadata.d
            /\ IF value.t = "str" /\ value.s # <<>> /\ value.s[1] = "*"
               THEN LET rest == SubSeq(value.s, 2, Len(value.s))
                        text == Str(metadata.d[key])
                    IN /\ Len(text) >= Len(rest)
                       /\ \A j \in 1..Len(rest) :
                             text[Len(text) - Len(rest) + j] = rest[j]
               ELSE metadata.d[key] = value

\* C5: when post-filtering is applied, a raw result is kept iff its metadata is
\* a mapping that holds every filter key with a value that matches the entry
\* (suffix match of the stringified value for a "*" pattern, equality
\* otherwise); no metadata at all fails.
C5_FilterSemantics ==
    (HasResponse /\ needs_post_filtering) =>
        LET raw == memory_results.items
            kept == {i \in 1..Len(raw) :
                       ClaimPasses(IF raw[i].doc.metadata = Absent THEN EmptyDict
                                   ELSE raw[i].doc.metadata,
                                   request.metadata_filter)}
        IN Len(outcome.response.results) = Cardinality(kept)

\* C5 witness: metadata {source: doc.pdf} under the filter {source: *.pdf}
\* comes through.
C5_Witness ==
    /\ HasResponse /\ needs_post_filtering
    /\ request.metadata_filter = ItemsV(<< <<"source", StrV(StarPdf)>> >>)
    /\ Len(memory_results.items) = 1
    /\ memory_results.items[1].doc.metadata = DictV([source |-> StrV(DocPdf)])
    /\ Len(outcome.response.results) = 1

\* C6 as claimed: a failure of embed_query on the query or of
\* recall_memories_from_embedding, whatever its type, ends the request with the
\* generic "Error during search" exception and no response; only effective
\* k > max_k ends it with a ValueError.
C6_GenericFailure ==
    pc = "done" =>
        /\ (\E i \in 1..Len(calls) :
               /\ ~Succeeded(calls[i])
               /\ \/ calls[i].m = "recall_memories_from_embedding"
                  \/ calls[i].m = "embed_query" /\ memory_results.none)
           => /\ outcome.kind = "Exception"
              /\ outcome.msg = "Error during search"
              /\ outcome.response = NoResponse
        /\ outcome.kind = "ValueError" => k > settings.max_k

\* C7: an explicit k <= max_k with every collaborator call succeeding ends in a
\* response whose total_results is the length of its results.
C7_SuccessCount ==
    (/\ pc = "done"
     /\ request.k # 0
     /\ request.k <= settings.max_k
     /\ \A i \in 1..Len(calls) : Succeeded(calls[i]))
    => /\ outcome.kind = "response"
       /\ outcome.response.total_results = Len(outcome.response.results)

\* C7 witness: explicit k = max_k, all calls succeeded, and the response holds
\* fewer results than the strategy returned.
C7_Witness ==
    /\ HasResponse
    /\ request.k = settings.max_k
    /\ \A i \in 1..Len(calls) : Succeeded(calls[i])
    /\ outcome.response.total_results = 1
    /\ Len(memory_results.items) = 2

\* Fields missing over the three memory areas.
MissingFields == {<<a, f>> \in Areas \X AreaFields : f \notin vectors[a]}

\* C8 as claimed: collections always answers with the three areas, each its
\* descriptor or an error placeholder, and stats answers too when a single
\* collaborator field is missing.
C8_PerFieldIsolation ==
    /\ info.endpoint = "collections" =>
         /\ info.kind = "response"
         /\ DOMAIN info.body = Areas
         /\ \A a \in Areas :
               info.body[a] = IF AreaFields \subseteq vectors[a]
                              THEN "descriptor" ELSE "error"
    /\ (info.endpoint = "stats" /\ Cardinality(MissingFields) = 1) =>
         info.kind = "response"

\* C9: with enable_content_preview, a content longer than preview_length has as
\* preview its first preview_length characters followed by "...", any other
\* content is its own preview; without it the preview is None.
C9_Preview ==
    HasResponse =>
        \A i \in 1..Len(outcome.response.results) :
            LET r == outcome.response.results[i]
                n == settings.preview_length
            IN IF ~settings.enable_content_preview THEN r.content_preview = NoneV
               ELSE IF Len(r.content.s) > n
               THEN /\ r.content_preview.t = "str"
                    /\ Len(r.content_preview.s) = n + 3
                    /\ \A j \in 1..n : r.content_preview.s[j] = r.content.s[j]
                    /\ \A j \in (n + 1)..(n + 3) : r.content_preview.s[j] = "."
               ELSE r.content_preview = r.content

\* C9 witness: a 250-character content under preview_length 200.
C9_Witness ==
    /\ HasResponse
    /\ settings.enable_content_preview
    /\ settings.preview_length = DefaultPreviewLength
    /\ Len(outcome.response.results) = 1
    /\ Len(outcome.response.results[1].content.s) = 250
    /\ Len(outcome.response.results[1].content_preview.s) = 203

\* The result loop has run to its end (the request may still fail while the
\* response is assembled).
LoopOver ==
    \/ pc = "build"
    \/ HasResponse
    \/ pc = "done" /\ calls # <<>> /\ calls[Len(calls)].m = "embedder_info"

\* C10: once the loop is over, the results are exactly the raw items that
\* normalize without error and pass the applicable filter, in raw order, every
\* raw item has been visited, and the response carries those results; the
\* request never fails inside the loop.
C10_OrderedSurvivors ==
    /\ LoopOver =>
          /\ idx = Len(memory_results.items)
          /\ results = Survivors(memory_results.items,
                                 NeedsPostFiltering(request, settings, search_method_used))
    /\ HasResponse => outcome.response.results = results
    /\ pc = "loop" => outcome.kind = "pending"

\* C10 witness: the first raw item raises while being normalized, the second
\* one is still processed and is the only result.
C10_Witness ==
    /\ HasResponse
    /\ request.include_scores
    /\ memory_results.items = <<Obj(DocBad, StrV(<<"x">>)), Pair(DocPass, IntV(1))>>
    /\ Len(outcome.response.results) = 1
    /\ outcome.response.results[1].content = StrV(<<"a", "b", "c">>)

\* C11 as claimed: with enable_metadata_filter false the request's filter has
\* no influence: no collaborator call is given the filter, the tag is never
\* search_with_filter, and the response holds every raw result that normalizes.
C11_FilterDisabled ==
    ~settings.enable_metadata_filter =>
        /\ \A i \in 1..Len(calls) : ~calls[i].with_filter
        /\ search_method_used # "search_with_filter"
        /\ HasResponse =>
              outcome.response.results = Survivors(memory_results.items, FALSE)

\* Positions of the embed_query calls in the call log.
EmbedCalls == {i \in 1..Len(calls) : calls[i].m = "embed_query"}

\* C12: a request that returns a response has called embed_query exactly once.
\* Under the tag recall_memories_from_embedding it is the call on the query,
\* right before the recall call, and its vector length is the response's
\* embedding_dimensions; under any other tag it is the last call of the request,
\* made after the result loop, and its failure only leaves embedding_dimensions
\* absent.
C12_EmbedOnce ==
    /\ HasResponse =>
         /\ Cardinality(EmbedCalls) = 1
         /\ LET e == CHOOSE i \in EmbedCalls : TRUE
            IN IF outcome.response.search_method = "recall_memories_from_embedding"
               THEN /\ Succeeded(calls[e])
                    /\ e + 1 = Len(calls)
                    /\ calls[e + 1].m = "recall_memories_from_embedding"
                    /\ query_embedding \in 1..MaxDim
                    /\ outcome.response.embedding_dimensions = query_embedding
               ELSE /\ e = Len(calls)
                    /\ idx = Len(memory_results.items)
                    /\ query_embedding = 0
                    /\ IF Succeeded(calls[e])
                       THEN outcome.response.embedding_dimensions \in 1..MaxDim
                       ELSE outcome.response.embedding_dimensions = 0
    /\ pc = "build" => outcome.kind = "pending"

\* C12 witness: the tag is search, the sample embed_query raised, and the
\* response is returned with embedding_dimensions absent.
C12_Witness ==
    /\ HasResponse
    /\ outcome.response.search_method = "search"
    /\ calls[Len(calls)] = Call("embed_query", FALSE, "ValueError")
    /\ outcome.response.embedding_dimensions = 0
    /\ outcome.response.results # <<>>

====
